---- MODULE Spec2Model ----
(***************************************************************************)
(* RevuIQ review intelligence pipeline.                                    *)
(*                                                                         *)
(*   SpecNlp       working_nlp_api.py: analyze_sentiment_nlp and           *)
(*                 extract_aspects_nlp applied to one (text, rating).      *)
(*   SpecEmotion   working_nlp_api.py: detect_emotions_nlp applied to one  *)
(*                 (text, sentiment label).                                *)
(*   SpecResponse  working_nlp_api.py: generate_response_nlp applied to    *)
(*                 one (text, sentiment, aspects).                         *)
(*   SpecEndpoints working_nlp_api.py: the entry points that run the four  *)
(*                 stages in sequence on one review.                       *)
(*   SpecAspectSentiment  aspect_extractor.py: get_aspect_sentiment on one *)
(*                 text.                                                   *)
(*   SpecComplete  main_complete.py: process_review_complete, with         *)
(*                 nlp_pipeline/aspect_extractor.py AspectExtractor.       *)
(*   Spec          main_production.py: analyze_review / bulk_analyze over  *)
(*                 the shared ReviewRAG index of nlp_pipeline/rag_system.py*)
(*   SpecProduction  main_production.py: analyze_review and bulk_analyze   *)
(*                 over the shared index.                                  *)
(*   SpecThemes    rag_system.py: _extract_themes and _build_response on   *)
(*                 one list of retrieved reviews.                          *)
(*   SpecIndex     rag_system.py: the ReviewRAG operations on one index.   *)
(*                                                                         *)
(* Numbers: polarities, scores, intensities and confidences are integers   *)
(* counting 0.00001 (so 0.05 is 5000 and 1.0 is 100000); ratings count     *)
(* tenths of a star (2.0 is 20).                                           *)
(*                                                                         *)
(* A text is a record: the words it is made of, and what the external      *)
(* collaborators return for it (VADER's compound, TextBlob's polarity,     *)
(* the sentence embedding).  These are functions of the text, so they      *)
(* travel with it.                                                         *)
(***************************************************************************)
EXTENDS Integers, Sequences, FiniteSets, TLC

VARIABLES
    text,        \* the review text under analysis (pure-function specs)
    rating,      \* its rating: absent, a number, or a non-numeric JSON value
    pc,          \* "input" before the function under study ran, then its name
    sentiment,   \* result of analyze_sentiment_nlp
    aspects,     \* result of extract_aspects_nlp
    complete,    \* result of process_review_complete
    emotions,    \* result of detect_emotions_nlp, with the label it was given
    response,    \* result of generate_response_nlp, with its arguments
    available,   \* main_production.RAG_AVAILABLE
    store,       \* ReviewRAG.collection: sequence of entries, insertion order
    clock,       \* the last value datetime.now().timestamp() returned
    log,         \* the calls of analyze_review so far, with what they returned
                 \* (SpecIndex: the purges so far, with what they removed)
    writes,      \* the add_review / add_reviews_batch writes that returned an id
                 \* since the last purge
    found        \* what the last read of the index returned, since the last write

vars == <<text, rating, pc, sentiment, aspects, complete, emotions, response,
          available, store, clock, log, writes, found>>

nlpVars == <<text, rating, pc, sentiment, aspects, complete, emotions, response>>
ragVars == <<available, store, clock, log, writes, found>>

----------------------------------------------------------------------------
(* Bounds of the model *)

MaxWords == 2

\* analyze_review calls in one behaviour
MaxCalls == 2

\* tokens of a text whose character offsets are modelled
MaxTokens == 4

\* entries the index holds when written to directly
MaxStore == 3

\* purges of a non-empty index in one behaviour
MaxPurges == 1

----------------------------------------------------------------------------
(* Texts *)

\* Words a modelled text is made of.  None is a substring of another, so
\* Python's `kw in text_lower` and the regex \b(kw)\b agree on them.
Vocabulary == {"great", "terrible", "food", "service", "clean", "okay"}

WordSeqs == UNION {[1..n -> Vocabulary] : n \in 0..MaxWords}

\* VADER compound values (4 decimals in VADER, here in units of 0.00001).
VaderSamples ==
    {-90000, -30000, -29990, -10000, -7000, -5000, -4980, -4950, 0,
     4950, 4980, 5000, 7000, 10000, 50000, 98000, 99000}

\* TextBlob polarity values and the one subjectivity value carried along.
BlobSamples == {-50000, -25000, -10000, 0, 10000, 25000, 26000, 50000}

MkText(w, v, b, e) ==
    [words |-> w, vader |-> v, blob |-> b, subjectivity |-> 50000, vec |-> e]

\* `kw in text_lower`
In(kw, t) == \E i \in 1..Len(t.words) : t.words[i] = kw

AnyIn(kws, t) == \E kw \in kws : In(kw, t)

\* len(pattern.findall(text_lower)) for a pattern \b(k1|k2|...)\b
RECURSIVE CountIn(_, _)
CountIn(kws, w) ==
    IF w = <<>> THEN 0
    ELSE (IF Head(w) \in kws THEN 1 ELSE 0) + CountIn(kws, Tail(w))

Min(a, b) == IF a <= b THEN a ELSE b
Max(a, b) == IF a >= b THEN a ELSE b
Abs(a) == IF a >= 0 THEN a ELSE -a

\* round(x, 3): the nearest multiple of 0.001.  A value exactly half way is
\* rounded by the binary double nearest to it; for every half-way value the
\* sampled inputs produce (0.0495, 0.3505, 0.4495) that is away from zero.
Round3(x) ==
    LET m == Abs(x)
        r == ((m + 50) \div 100) * 100
    IN  IF x >= 0 THEN r ELSE -r

----------------------------------------------------------------------------
(* Ratings *)

NoRating == [kind |-> "absent", val |-> 0]
\* a JSON value that is not a number (bulk routes take List[Dict])
BadRating == [kind |-> "nonnumeric", val |-> 0]
NumRating(v) == [kind |-> "number", val |-> v]

RatingSamples == {-10, 0, 10, 20, 21, 50, 60}

Ratings == {NoRating, BadRating} \cup {NumRating(v) : v \in RatingSamples}

----------------------------------------------------------------------------
(* working_nlp_api.py: Sentiment Scorer *)

strong_negative_phrases ==
    {"passive aggressive", "self-righteous", "rude", "terrible", "worst",
     "horrible", "awful", "disgusting", "never again", "waste", "scam",
     "fraud", "bankrupt", "going bankrupt", "disappointed", "disappointing"}

has_strong_negative(t) == AnyIn(strong_negative_phrases, t)

\* the `except` branch: no pos/neg/neu fields
SentimentError ==
    [label |-> "NEUTRAL", score |-> 50000, polarity |-> 0, scored |-> FALSE]

\* the correction with the bound written as "below 3 stars"
RatingCorrection_Below3(compound, r) ==
    IF r.kind = "number" /\ r.val < 30 /\ compound >= 0
    THEN -50000 ELSE compound

\* rating-based correction (lines 88-92)
RatingCorrection(compound, r) ==
    IF r.kind = "number" /\ r.val <= 20 /\ compound >= 0
    THEN -50000 ELSE compound

\* strong negative phrase override (lines 94-96)
StrongNegativeOverride(compound, t) ==
    IF has_strong_negative(t) /\ compound > -30000
    THEN Min(compound - 40000, -30000) ELSE compound

\* the two overrides in the other order: phrase clamp, then rating correction
FinalCompound_ClampFirst(t, r) ==
    RatingCorrection(StrongNegativeOverride(t.vader, t), r)

\* the compound the thresholds are applied to
FinalCompound(t, r) == StrongNegativeOverride(RatingCorrection(t.vader, r), t)

\* the thresholds of main_complete.analyze_sentiment (0.1) used here
LabelOf_Tenth(compound) ==
    IF compound > 10000 THEN "POSITIVE"
    ELSE IF compound < -10000 THEN "NEGATIVE"
    ELSE "NEUTRAL"

LabelOf(compound) ==
    IF compound >= 5000 THEN "POSITIVE"
    ELSE IF compound <= -5000 THEN "NEGATIVE"
    ELSE "NEUTRAL"

\* the score without its 0.99 cap
ScoreOf_NoCap(compound) ==
    IF compound >= 5000 THEN 50000 + compound \div 2
    ELSE IF compound <= -5000 THEN 50000 + Abs(compound) \div 2
    ELSE 50000

ScoreOf(compound) ==
    IF compound >= 5000 THEN Min(50000 + compound \div 2, 99000)
    ELSE IF compound <= -5000 THEN Min(50000 + Abs(compound) \div 2, 99000)
    ELSE 50000

analyze_sentiment_nlp(t, r) ==
    IF r.kind = "nonnumeric"
    THEN SentimentError      \* `rating <= 2.0` raises TypeError, caught
    ELSE LET compound == FinalCompound(t, r)
         IN  [label    |-> LabelOf(compound),
              score    |-> Round3(ScoreOf(compound)),
              polarity |-> Round3(compound),
              scored   |-> TRUE]

NoSentiment == [label |-> "none", score |-> 0, polarity |-> 0, scored |-> FALSE]

----------------------------------------------------------------------------
(* working_nlp_api.py: aspect extraction *)

Lower(label) ==
    CASE label = "POSITIVE" -> "positive"
      [] label = "NEGATIVE" -> "negative"
      [] label = "NEUTRAL"  -> "neutral"
      [] OTHER -> label

\* aspect_keywords of extract_aspects_nlp, in dict order
NlpAspectOrder == <<"food", "service", "ambiance", "price">>

NlpAspectKeywords(a) ==
    CASE a = "food"     -> {"food", "meal", "dish", "taste", "flavor", "cuisine"}
      [] a = "service"  -> {"service", "staff", "waiter", "server", "waitress"}
      [] a = "ambiance" -> {"atmosphere", "ambiance", "decor", "environment"}
      [] a = "price"    -> {"price", "expensive", "cheap", "value", "cost"}

GeneralPositive == <<[aspect |-> "general", sentiment |-> "positive"]>>

\* the `for aspect, keywords in aspect_keywords.items()` loop, from index i
RECURSIVE MatchAspects(_, _)
MatchAspects(t, i) ==
    IF i > Len(NlpAspectOrder) THEN <<>>
    ELSE LET a == NlpAspectOrder[i]
             rest == MatchAspects(t, i + 1)
         IN  IF AnyIn(NlpAspectKeywords(a), t)
             THEN <<[aspect    |-> a,
                     sentiment |-> Lower(analyze_sentiment_nlp(t, NoRating).label)]>>
                  \o rest
             ELSE rest

\* raised is TRUE when TextBlob(text) / blob.noun_phrases raises (for example
\* the NLTK corpora are not installed): the `except` branch returns the fallback
extract_aspects_nlp(t, raised) ==
    IF raised THEN GeneralPositive
    ELSE LET matched == MatchAspects(t, 1)
         IN  IF matched # <<>> THEN matched ELSE GeneralPositive

----------------------------------------------------------------------------
(* working_nlp_api.py: Emotion Profiler *)

\* keyword families of detect_emotions_nlp, POSITIVE branch
StrongJoyWords == {"love", "amazing", "excellent", "perfect", "best", "wonderful"}
GratitudeWords == {"thank", "appreciate", "grateful"}
ModerateJoyWords == {"good", "nice", "great", "happy", "enjoyed"}
SurpriseWords == {"surprised", "unexpected", "wow", "amazing"}

\* keyword families of detect_emotions_nlp, NEGATIVE branch
DisgustWords == {"sick", "poisoning", "vomit", "nausea", "disgusting", "gross"}
StrongAngerWords == {"terrible", "worst", "horrible", "awful", "hate", "never again"}
SadnessWords == {"bad", "poor", "disappointing", "disappointed", "sad"}
FearWords == {"scared", "afraid", "worried", "concern"}

\* the level with twice the scale and no cap
EmotionLevel_Uncapped(base, percent, cap, intensity) ==
    base + (intensity * 2 * percent) \div 100

\* min(base + (intensity * scale), cap), scale given in hundredths
EmotionLevel(base, percent, cap, intensity) ==
    Min(base + (intensity * percent) \div 100, cap)

\* the dict built from (name, level) assignments, each name assigned once
EmotionMap(pairs) ==
    [n \in {p[1] : p \in pairs} |-> CHOOSE v \in {p[2] : p \in pairs} : <<n, v>> \in pairs]

\* detect_emotions_nlp, POSITIVE branch
PositiveEmotions(t, intensity) ==
    LET joy ==
            IF AnyIn(StrongJoyWords, t)
            THEN {<<"joy", EmotionLevel(75000, 20, 95000, intensity)>>}
                 \cup (IF AnyIn(GratitudeWords, t)
                       THEN {<<"gratitude", EmotionLevel(70000, 20, 90000, intensity)>>}
                       ELSE {})
            ELSE IF AnyIn(ModerateJoyWords, t)
            THEN {<<"joy", EmotionLevel(60000, 20, 80000, intensity)>>}
            ELSE {}
        surprise ==
            IF AnyIn(SurpriseWords, t)
            THEN {<<"surprise", EmotionLevel(60000, 15, 75000, intensity)>>}
            ELSE {}
    IN  IF joy \cup surprise # {} THEN joy \cup surprise ELSE {<<"joy", 65000>>}

\* the NEGATIVE branch with every matching family firing
NegativeEmotions_Additive(t, intensity) ==
    LET all ==
            (IF AnyIn(DisgustWords, t)
             THEN {<<"disgust", EmotionLevel(80000, 15, 95000, intensity)>>} ELSE {})
            \cup (IF AnyIn(StrongAngerWords, t)
                  THEN {<<"anger", EmotionLevel(75000, 15, 90000, intensity)>>} ELSE {})
            \cup (IF AnyIn(SadnessWords, t)
                  THEN {<<"sadness", EmotionLevel(65000, 15, 80000, intensity)>>} ELSE {})
            \cup (IF AnyIn(FearWords, t)
                  THEN {<<"fear", EmotionLevel(60000, 15, 75000, intensity)>>} ELSE {})
    IN  IF all # {} THEN all ELSE {<<"sadness", 60000>>}

\* detect_emotions_nlp, NEGATIVE branch
NegativeEmotions(t, intensity) ==
    IF AnyIn(DisgustWords, t)
    THEN {<<"disgust", EmotionLevel(80000, 15, 95000, intensity)>>,
          <<"anger", EmotionLevel(70000, 15, 85000, intensity)>>}
    ELSE IF AnyIn(StrongAngerWords, t)
    THEN {<<"anger", EmotionLevel(75000, 15, 90000, intensity)>>,
          <<"disappointment", EmotionLevel(65000, 15, 80000, intensity)>>}
    ELSE IF AnyIn(SadnessWords, t)
    THEN {<<"sadness", EmotionLevel(65000, 15, 80000, intensity)>>,
          <<"disappointment", EmotionLevel(60000, 15, 75000, intensity)>>}
    ELSE IF AnyIn(FearWords, t)
    THEN {<<"fear", EmotionLevel(60000, 15, 75000, intensity)>>}
    ELSE {<<"sadness", 60000>>}

\* intensity = abs(vader_scores['compound']), of VADER run again on the text
EmotionIntensity(t) == Abs(t.vader)

\* detect_emotions_nlp: the mapping from emotion names to levels
detect_emotions_nlp(t, sentiment_label) ==
    LET intensity == EmotionIntensity(t)
    IN  EmotionMap(IF sentiment_label = "POSITIVE" THEN PositiveEmotions(t, intensity)
                   ELSE IF sentiment_label = "NEGATIVE" THEN NegativeEmotions(t, intensity)
                   ELSE {<<"neutral", 70000>>})

----------------------------------------------------------------------------
(* working_nlp_api.py: Response Composer *)

\* The keywords a word of a text contains as substrings (`kw in text_lower`
\* is a substring test): every word contains itself, and "still" contains
\* the health keyword "ill".
Substrings(w) == IF w = "still" THEN {"still", "ill"} ELSE {w}

\* any(word in text_lower for word in kws)
Mentions(kws, t) == \E i \in 1..Len(t.words) : Substrings(t.words[i]) \cap kws # {}

\* The `aspects` argument: a list of {aspect, sentiment} dicts, or the
\* business name string that /api/analyze passes in its place.
AspectList(items) == [kind |-> "list", items |-> items]
AspectString == [kind |-> "str", items |-> <<>>]

\* keys of aspect_details: a string's characters are not dicts and add none
AspectDetails(aspects_arg) ==
    IF aspects_arg.kind = "list"
    THEN {aspects_arg.items[i].aspect : i \in 1..Len(aspects_arg.items)} \ {""}
    ELSE {}

HealthWords == {"sick", "poisoning", "food poisoning", "ill"}

\* the three sentences of the health branch
UrgentApology == <<"health_concern", "health_unacceptable", "health_investigate">>

IfIn(cond, clause) == IF cond THEN <<clause>> ELSE <<>>

\* the opening apology, by severity
OpeningApology(t) ==
    IF Mentions({"terrible", "worst", "horrible", "awful", "disgusting"}, t)
    THEN "apology_unacceptable"
    ELSE IF Mentions({"disappointed", "disappointing", "expected better"}, t)
    THEN "apology_expectations"
    ELSE "apology_issues"

\* the food, service and price clauses
KnownRemediation(t, details) ==
    IfIn("food" \in details,
         IF Mentions({"cold", "warm"}, t) THEN "food_temperature"
         ELSE IF Mentions({"quality", "taste"}, t) THEN "food_quality"
         ELSE "food_preparation")
    \o IfIn("service" \in details,
            IF Mentions({"rude", "unprofessional"}, t) THEN "service_behavior"
            ELSE IF Mentions({"slow", "wait", "long"}, t) THEN "service_speed"
            ELSE "service_training")
    \o IfIn("price" \in details, "price_feedback")

\* the remediation with a generic clause for the aspects it has no clause for
Remediation_Generic(t, details) ==
    KnownRemediation(t, details)
    \o IfIn(details \ {"food", "service", "price"} # {}, "generic_remediation")
    \o <<"second_chance">>

\* the remediation with the closing left out when no aspect was addressed
Remediation_ClosingAfterClause(t, details) ==
    KnownRemediation(t, details)
    \o IfIn(details \cap {"food", "service", "price"} # {}, "second_chance")

\* the clauses addressing the aspects of aspect_details, then the closing
Remediation(t, details) ==
    IfIn("food" \in details,
         IF Mentions({"cold", "warm"}, t) THEN "food_temperature"
         ELSE IF Mentions({"quality", "taste"}, t) THEN "food_quality"
         ELSE "food_preparation")
    \o IfIn("service" \in details,
            IF Mentions({"rude", "unprofessional"}, t) THEN "service_behavior"
            ELSE IF Mentions({"slow", "wait", "long"}, t) THEN "service_speed"
            ELSE "service_training")
    \o IfIn("price" \in details, "price_feedback")
    \o <<"second_chance">>

\* the NEGATIVE branch with the health check made after the opening apology
NegativeResponse_ApologyFirst(t, details) ==
    <<OpeningApology(t)>>
    \o (IF Mentions(HealthWords, t) THEN UrgentApology ELSE Remediation(t, details))

\* generate_response_nlp, NEGATIVE branch
NegativeResponse(t, details) ==
    IF Mentions(HealthWords, t) THEN UrgentApology
    ELSE <<OpeningApology(t)>> \o Remediation(t, details)

\* the POSITIVE branch acknowledging only the first of food, service, ambiance
PositiveResponse_FirstAspectOnly(t, details) ==
    <<IF Mentions({"love", "loved", "favorite"}, t) THEN "open_loved"
      ELSE IF Mentions({"amazing", "excellent", "perfect"}, t) THEN "open_amazing"
      ELSE IF Mentions({"great", "good", "nice"}, t) THEN "open_great"
      ELSE "open_thanks">>
    \o (IF "food" \in details THEN <<"food_hit_the_spot">>
        ELSE IF "service" \in details THEN <<"service_excellent">>
        ELSE IfIn("ambiance" \in details \/ Mentions({"atmosphere"}, t), "atmosphere"))
    \o <<IF Mentions({"back", "again", "return"}, t) THEN "close_again"
         ELSE "close_welcome_back">>

\* generate_response_nlp, POSITIVE branch
PositiveResponse(t, details) ==
    <<IF Mentions({"love", "loved", "favorite"}, t) THEN "open_loved"
      ELSE IF Mentions({"amazing", "excellent", "perfect"}, t) THEN "open_amazing"
      ELSE IF Mentions({"great", "good", "nice"}, t) THEN "open_great"
      ELSE "open_thanks">>
    \o IfIn("food" \in details,
            IF Mentions({"coffee", "latte", "espresso", "drink"}, t) THEN "food_beverages"
            ELSE IF Mentions({"pastry", "danish", "croissant", "baked"}, t)
            THEN "food_bakers"
            ELSE "food_hit_the_spot")
    \o IfIn("service" \in details,
            IF Mentions({"staff", "worker", "employee"}, t) THEN "service_team"
            ELSE IF Mentions({"fast", "quick"}, t) THEN "service_efficient"
            ELSE "service_excellent")
    \o IfIn("ambiance" \in details \/ Mentions({"atmosphere"}, t), "atmosphere")
    \o <<IF Mentions({"back", "again", "return"}, t) THEN "close_again"
         ELSE "close_welcome_back">>

\* generate_response_nlp, NEUTRAL branch (any other label): noun_phrases is
\* what TextBlob extracted, at most 3 phrases longer than 3 characters
NeutralResponse(noun_phrases) ==
    IF noun_phrases # <<>>
    THEN <<"thanks_about">> \o SubSeq(noun_phrases, 1, Min(2, Len(noun_phrases)))
    ELSE <<"thanks_generic">>

\* the `except` branch
ResponseFallback(sent) ==
    IF sent = "POSITIVE" THEN <<"fallback_positive">>
    ELSE IF sent = "NEGATIVE" THEN <<"fallback_negative">>
    ELSE <<"fallback_neutral">>

\* generate_response_nlp: the sentences of the response, in order.  raised
\* is TRUE when TextBlob(text) / blob.noun_phrases raises.
generate_response_nlp(t, sent, aspects_arg, noun_phrases, raised) ==
    IF raised THEN ResponseFallback(sent)
    ELSE IF sent = "POSITIVE" THEN PositiveResponse(t, AspectDetails(aspects_arg))
    ELSE IF sent = "NEGATIVE" THEN NegativeResponse(t, AspectDetails(aspects_arg))
    ELSE NeutralResponse(noun_phrases)

----------------------------------------------------------------------------
(* main_complete.py / main_production.py: TextBlob stages and templates *)

Businesses == {"Your Business", "Cafe Uno"}

\* main_complete.analyze_sentiment
analyze_sentiment_complete(t) ==
    LET polarity == t.blob
    IN  [label |-> IF polarity > 10000 THEN "POSITIVE"
                   ELSE IF polarity < -10000 THEN "NEGATIVE"
                   ELSE "NEUTRAL",
         score |-> IF polarity > 10000 THEN (polarity + 100000) \div 2
                   ELSE IF polarity < -10000 THEN (100000 - Abs(polarity)) \div 2
                   ELSE 50000,
         polarity |-> polarity,
         subjectivity |-> t.subjectivity]

EmotionKeywords(e) ==
    CASE e = "joy" -> {"happy", "great", "excellent", "amazing", "wonderful",
                       "love", "best"}
      [] e = "anger" -> {"angry", "terrible", "worst", "horrible", "hate", "awful"}
      [] e = "disappointment" -> {"disappointed", "expected", "unfortunately",
                                  "not good"}
      [] e = "gratitude" -> {"thank", "appreciate", "grateful"}
      [] e = "frustration" -> {"slow", "wait", "long", "never", "still"}

EmotionNames == {"joy", "anger", "disappointment", "gratitude", "frustration"}

\* sum(1 for keyword in keywords if keyword in text_lower)
KeywordHits(kws, t) == Cardinality({kw \in kws : In(kw, t)})

\* detect_emotions (the same function in main_complete and main_production)
detect_emotions(t, sent) ==
    LET emotion_scores == [e \in EmotionNames |-> KeywordHits(EmotionKeywords(e), t)]
    IN  [primary_emotion |->
             IF sent = "POSITIVE"
             THEN (IF emotion_scores["joy"] > 0 THEN "joy" ELSE "gratitude")
             ELSE IF sent = "NEGATIVE"
             THEN (IF emotion_scores["anger"] > 0 THEN "anger"
                   ELSE IF emotion_scores["disappointment"] > 0 THEN "disappointment"
                   ELSE "frustration")
             ELSE "neutral",
         confidence |-> IF sent = "POSITIVE" THEN 80000
                        ELSE IF sent = "NEGATIVE" THEN 75000 ELSE 60000,
         all_emotions |-> emotion_scores]

ToneOf(sent) ==
    IF sent = "NEGATIVE" THEN "apologetic"
    ELSE IF sent = "POSITIVE" THEN "grateful" ELSE "professional"

\* keys of the `responses` table, per sentiment
TemplateKeys(sent) ==
    CASE sent = "POSITIVE" -> {"joy", "gratitude", "default"}
      [] sent = "NEGATIVE" -> {"anger", "disappointment", "frustration", "default"}
      [] OTHER -> {"default"}

\* The template text is named by the table row and key that select it and
\* the business name interpolated into it.
TemplateText(sent, emotion, business) ==
    LET row == IF sent \in {"POSITIVE", "NEGATIVE", "NEUTRAL"} THEN sent ELSE "NEUTRAL"
        key == IF emotion \in TemplateKeys(row) THEN emotion ELSE "default"
    IN  [source |-> "template", row |-> row, key |-> key, business |-> business]

\* template-based responses (main_production lines 181-210, and
\* main_complete.generate_ai_response)
TemplateResponse(sent, emotion, business) ==
    [response   |-> TemplateText(sent, emotion, business),
     tone       |-> ToneOf(sent),
     confidence |-> IF sent \in {"POSITIVE", "NEGATIVE"} THEN 85000 ELSE 70000]

----------------------------------------------------------------------------
(* nlp_pipeline/rag_system.py: ReviewRAG *)

\* collection.add replacing the entry that has the id (an upsert)
CollectionAdd_Upsert(st, entry, outcome) ==
    IF \E i \in 1..Len(st) : st[i].id = entry.id
    THEN [store |-> [i \in 1..Len(st) |-> IF st[i].id = entry.id THEN entry ELSE st[i]],
          raised |-> FALSE]
    ELSE [store |-> Append(st, entry), raised |-> FALSE]

\* collection.add of one entry.  outcome says what the vector database does
\* when the id is already in the collection: "raise" (an error, nothing is
\* stored) or "ignore" (the add is dropped with a warning, no error).
\* Returns the collection and whether the call raised.
CollectionAdd(st, entry, outcome) ==
    IF \E i \in 1..Len(st) : st[i].id = entry.id
    THEN [store |-> st, raised |-> (outcome = "raise")]
    ELSE [store |-> Append(st, entry), raised |-> FALSE]

DuplicateOutcomes == {"raise", "ignore"}

\* review_id = f"review_{datetime.now().timestamp()}"
ReviewId(now) == [prefix |-> "review", ts |-> now, i |-> -1]

\* f"review_{datetime.now().timestamp()}_{i}"
BatchId(now, i) == [prefix |-> "review", ts |-> now, i |-> i]

MkEntry(id, t, metadata) ==
    [id |-> id, vec |-> t.vec, text |-> t, metadata |-> metadata]

\* ReviewRAG.add_review at clock reading now
add_review(st, t, metadata, now, outcome) ==
    LET review_id == ReviewId(now)
        r == CollectionAdd(st, MkEntry(review_id, t, metadata), outcome)
    IN  [store |-> r.store, raised |-> r.raised, id |-> review_id]

\* collection.add of a list of entries with pairwise distinct ids: an id
\* already in the collection makes the call raise and store nothing, or
\* drops that entry alone
RECURSIVE AppendNew(_, _)
AppendNew(st, entries) ==
    IF entries = <<>> THEN st
    ELSE AppendNew(CollectionAdd(st, Head(entries), "ignore").store, Tail(entries))

CollectionAddMany(st, entries, outcome) ==
    IF outcome = "raise" /\ \E i \in 1..Len(st), j \in 1..Len(entries) :
                                st[i].id = entries[j].id
    THEN [store |-> st, raised |-> TRUE]
    ELSE [store |-> AppendNew(st, entries), raised |-> FALSE]

\* ReviewRAG.add_reviews_batch at clock reading now; reviews is a list of
\* [text, metadata]
add_reviews_batch(st, reviews, now, outcome) ==
    LET ids == [i \in 1..Len(reviews) |-> BatchId(now, i - 1)]
        entries == [i \in 1..Len(reviews) |->
                       MkEntry(ids[i], reviews[i].text, reviews[i].metadata)]
        r == CollectionAddMany(st, entries, outcome)
    IN  [store |-> r.store, raised |-> r.raised, ids |-> ids]

\* squared L2 distance, the collection's default space; vectors have norm 5
Dist(u, v) == (u[1] - v[1]) * (u[1] - v[1]) + (u[2] - v[2]) * (u[2] - v[2])

\* 1 - results['distances'][0][i]
Similarity(u, v) == 100000 - Dist(u, v) * 4000

\* the query made without its `where` filter
Candidates_NoFilter(st, sentiment_filter) == 1..Len(st)

\* the entries a `where` filter on sentiment lets through
Candidates(st, sentiment_filter) ==
    {i \in 1..Len(st) : sentiment_filter = "" \/ st[i].metadata.sentiment = sentiment_filter}

\* collection.query: every list of the n_results nearest candidates, nearest
\* first.  The order among equally distant entries is the database's choice.
NearestLists(st, q, n_results, sentiment_filter) ==
    LET C == Candidates(st, sentiment_filter)
        k == Min(n_results, Cardinality(C))
    IN  {f \in [1..k -> C] :
            /\ \A a, b \in 1..k : a < b =>
                   (f[a] # f[b] /\ Dist(q, st[f[a]].vec) <= Dist(q, st[f[b]].vec))
            /\ \A c \in C : (\A a \in 1..k : f[a] # c) =>
                   (\A a \in 1..k : Dist(q, st[c].vec) >= Dist(q, st[f[a]].vec))}

\* ReviewRAG.find_similar_reviews: the possible return values
find_similar_reviews(st, query, n_results, sentiment_filter) ==
    {[i \in 1..Len(f) |->
         [text       |-> st[f[i]].text,
          metadata   |-> st[f[i]].metadata,
          similarity |-> Similarity(query.vec, st[f[i]].vec),
          id         |-> st[f[i]].id]] :
     f \in NearestLists(st, query.vec, n_results, sentiment_filter)}

\* aspect_keywords of _extract_themes, in dict order
ThemeOrder == <<"food", "service", "atmosphere", "price", "cleanliness", "speed">>

ThemeKeywords(a) ==
    CASE a = "food" -> {"food", "dish", "meal", "taste", "flavor", "delicious"}
      [] a = "service" -> {"service", "staff", "waiter", "server", "friendly", "helpful"}
      [] a = "atmosphere" -> {"atmosphere", "ambiance", "decor", "vibe", "environment"}
      [] a = "price" -> {"price", "expensive", "cheap", "value", "cost", "worth"}
      [] a = "cleanliness" -> {"clean", "dirty", "hygiene", "sanitary"}
      [] a = "speed" -> {"fast", "slow", "quick", "wait", "time"}

\* number of similar reviews that mention the aspect
ThemeCount(a, similar) ==
    Cardinality({i \in 1..Len(similar) : AnyIn(ThemeKeywords(a), similar[i].text)})

\* ReviewRAG._extract_themes, from index i of the aspect table
RECURSIVE ExtractThemes(_, _)
ExtractThemes(similar, i) ==
    IF i > Len(ThemeOrder) THEN <<>>
    ELSE (IF ThemeCount(ThemeOrder[i], similar) >= 2 THEN <<ThemeOrder[i]>> ELSE <<>>)
         \o ExtractThemes(similar, i + 1)

\* keys of the `responses` table of _build_response, per sentiment
RagKeys(sent) ==
    CASE sent = "POSITIVE" -> {"food", "service", "atmosphere"}
      [] sent = "NEGATIVE" -> {"food", "service", "cleanliness", "speed"}
      [] OTHER -> {}

\* _build_response keyed by the last theme of the list
build_response_LastTheme(sent, themes, business) ==
    LET row == IF sent \in {"POSITIVE", "NEGATIVE"} THEN sent ELSE "NEUTRAL"
        key == IF themes # <<>> /\ themes[Len(themes)] \in RagKeys(row)
               THEN themes[Len(themes)]
               ELSE "default"
    IN  [source |-> "rag", row |-> row, key |-> key,
         business |-> IF key = "default" THEN business ELSE ""]

\* ReviewRAG._build_response.  Only the default and the NEUTRAL texts name
\* the business.
build_response(sent, themes, business) ==
    LET row == IF sent \in {"POSITIVE", "NEGATIVE"} THEN sent ELSE "NEUTRAL"
        key == IF themes # <<>> /\ themes[1] \in RagKeys(row) THEN themes[1]
               ELSE "default"
    IN  [source |-> "rag", row |-> row, key |-> key,
         business |-> IF key = "default" THEN business ELSE ""]

\* ReviewRAG.generate_response, given what find_similar_reviews returned
rag_generate_response(sent, similar, business) ==
    build_response(sent, ExtractThemes(similar, 1), business)

\* number of stored entries with the sentiment
SentimentCount(st, sent) ==
    Cardinality({i \in 1..Len(st) : st[i].metadata.sentiment = sent})

\* ReviewRAG.get_stats; raised is TRUE when collection.get() raises
get_stats(st, raised) ==
    IF raised THEN [total_reviews |-> Len(st)]
    ELSE [total_reviews |-> Len(st),
          positive |-> SentimentCount(st, "POSITIVE"),
          negative |-> SentimentCount(st, "NEGATIVE"),
          neutral  |-> SentimentCount(st, "NEUTRAL")]

\* ReviewRAG.clear_database: the collection is deleted and created anew
clear_database(st) == <<>>

----------------------------------------------------------------------------
(* main_production.py *)

\* main_production.analyze_sentiment
analyze_sentiment(t) ==
    LET polarity == t.blob
    IN  [label |-> IF polarity > 25000 THEN "POSITIVE"
                   ELSE IF polarity < -25000 THEN "NEGATIVE"
                   ELSE "NEUTRAL",
         score |-> IF polarity > 25000 THEN (polarity + 100000) \div 2
                   ELSE IF polarity < -25000 THEN (100000 - Abs(polarity)) \div 2
                   ELSE 50000 + polarity \div 2,
         polarity |-> polarity,
         subjectivity |-> t.subjectivity]

\* What the similarity lookup of one request did: it was not made, it raised,
\* or it returned `similar`.
NoLookup == [made |-> FALSE, raised |-> FALSE, similar |-> <<>>]
LookupRaised == [made |-> TRUE, raised |-> TRUE, similar |-> <<>>]
LookupOk(similar) == [made |-> TRUE, raised |-> FALSE, similar |-> similar]

\* the lookups made after the review itself was stored
Lookups_AfterIngest(avail, st, t, sent) ==
    IF avail
    THEN {LookupRaised}
         \cup {LookupOk(sim) :
                 sim \in find_similar_reviews(
                            Append(st, MkEntry(ReviewId(-2), t,
                                               [sentiment |-> sent, rating |-> NoRating,
                                                business |-> "", platform |-> "unknown"])),
                            t, 3, sent)}
    ELSE {NoLookup}

\* the lookups rag_system.generate_response can make for a review
Lookups(avail, st, t, sent) ==
    IF avail
    THEN {LookupRaised} \cup {LookupOk(sim) : sim \in find_similar_reviews(st, t, 3, sent)}
    ELSE {NoLookup}

\* generate_ai_response with the `try` around the lookup left out: an error
\* of the index leaves the function
generate_ai_response_NoTry(sent, emotion, business, lookup) ==
    IF lookup.made /\ lookup.raised
    THEN [raised |-> TRUE, response |-> "", tone |-> "", confidence |-> 0]
    ELSE IF lookup.made
    THEN [raised |-> FALSE,
          response |-> rag_generate_response(sent, lookup.similar, business),
          tone |-> ToneOf(sent), confidence |-> 90000]
    ELSE [raised |-> FALSE] @@ TemplateResponse(sent, emotion, business)

\* generate_ai_response using the retrieval path whether or not the lookup
\* was made or succeeded
generate_ai_response_AlwaysRag(sent, emotion, business, lookup) ==
    IF ~lookup.raised
    THEN [raised |-> FALSE,
          response |-> rag_generate_response(sent, lookup.similar, business),
          tone |-> ToneOf(sent), confidence |-> 90000]
    ELSE [raised |-> FALSE] @@ TemplateResponse(sent, emotion, business)

\* generate_ai_response with a retrieval confidence of 0.80
generate_ai_response_LowRag(sent, emotion, business, lookup) ==
    IF lookup.made /\ ~lookup.raised
    THEN [raised |-> FALSE,
          response |-> rag_generate_response(sent, lookup.similar, business),
          tone |-> ToneOf(sent), confidence |-> 80000]
    ELSE [raised |-> FALSE] @@ TemplateResponse(sent, emotion, business)

\* generate_ai_response with the higher confidence only when themes came back
generate_ai_response_ThemeConfidence(sent, emotion, business, lookup) ==
    IF lookup.made /\ ~lookup.raised
    THEN [raised |-> FALSE,
          response |-> rag_generate_response(sent, lookup.similar, business),
          tone |-> ToneOf(sent),
          confidence |-> IF ExtractThemes(lookup.similar, 1) # <<>> THEN 90000
                         ELSE 85000]
    ELSE [raised |-> FALSE] @@ TemplateResponse(sent, emotion, business)

\* main_production.generate_ai_response; raised is FALSE: every error of the
\* lookup is caught
generate_ai_response(sent, emotion, business, lookup) ==
    IF lookup.made /\ ~lookup.raised
    THEN [raised |-> FALSE,
          response |-> rag_generate_response(sent, lookup.similar, business),
          tone |-> ToneOf(sent), confidence |-> 90000]
    ELSE [raised |-> FALSE] @@ TemplateResponse(sent, emotion, business)

\* What analyze_review returns for a review: the body of the `try`, and the
\* HTTP 500 of the `except` around it.
AnalysisResult(review, avail, lookup, now) ==
    LET sentiment_result == analyze_sentiment(review.text)
        emotion_result == detect_emotions(review.text, sentiment_result.label)
        ai_response == generate_ai_response(sentiment_result.label,
                           emotion_result.primary_emotion,
                           review.business_name, lookup)
    IN  IF ai_response.raised
        THEN [success |-> FALSE, status |-> 500]
        ELSE [success     |-> TRUE,
              sentiment   |-> sentiment_result,
              emotions    |-> emotion_result,
              ai_response |-> [response   |-> ai_response.response,
                               tone       |-> ai_response.tone,
                               confidence |-> ai_response.confidence],
              rag_enabled |-> avail,
              timestamp   |-> now]

\* metadata analyze_review stores with the review
ReviewMetadata(review) ==
    [sentiment |-> analyze_sentiment(review.text).label,
     rating    |-> review.rating,
     business  |-> review.business_name,
     platform  |-> review.platform]

----------------------------------------------------------------------------
(* nlp_pipeline/aspect_extractor.py *)

\* self.aspect_keywords, in dict order
AspectOrder ==
    <<"food", "service", "price", "ambiance", "location", "wait_time",
      "cleanliness", "drinks", "staff_behavior", "quality">>

AspectKeywords(a) ==
    CASE a = "food" ->
           {"food", "meal", "dish", "cuisine", "taste", "flavor", "delicious",
            "tasty", "bland", "spicy", "fresh", "stale", "quality", "portion",
            "menu", "breakfast", "lunch", "dinner", "appetizer", "dessert",
            "pizza", "pasta", "burger", "salad", "soup", "sandwich", "steak"}
      [] a = "service" ->
           {"service", "staff", "waiter", "waitress", "server", "bartender",
            "manager", "employee", "friendly", "rude", "attentive", "slow",
            "fast", "helpful", "professional", "courteous", "polite"}
      [] a = "price" ->
           {"price", "cost", "expensive", "cheap", "affordable", "value",
            "money", "worth", "overpriced", "reasonable", "budget", "deal",
            "pricing", "charge", "bill", "payment"}
      [] a = "ambiance" ->
           {"atmosphere", "ambiance", "ambience", "decor", "decoration",
            "interior", "design", "music", "lighting", "seating", "comfortable",
            "cozy", "clean", "dirty", "noisy", "quiet", "crowded", "spacious"}
      [] a = "location" ->
           {"location", "parking", "access", "convenient", "downtown",
            "neighborhood", "area", "nearby", "close", "far", "distance"}
      [] a = "wait_time" ->
           {"wait", "waiting", "waited", "queue", "line", "reservation",
            "booking", "time", "minutes", "hours", "delay", "quick", "prompt"}
      [] a = "cleanliness" ->
           {"clean", "dirty", "hygiene", "sanitary", "spotless", "filthy",
            "tidy", "messy", "bathroom", "restroom", "table", "floor"}
      [] a = "drinks" ->
           {"drink", "beverage", "coffee", "tea", "wine", "beer", "cocktail",
            "juice", "soda", "water", "latte", "cappuccino", "espresso"}
      [] a = "staff_behavior" ->
           {"attitude", "behavior", "manner", "greeting", "smile", "welcome",
            "respect", "disrespect", "ignore", "attention"}
      [] a = "quality" ->
           {"quality", "standard", "excellence", "mediocre", "poor",
            "outstanding", "exceptional", "average", "subpar"}

\* detected_aspects: the aspects with at least one match, in dict order,
\* each with len(matches)
RECURSIVE DetectedAspects(_, _)
DetectedAspects(t, i) ==
    IF i > Len(AspectOrder) THEN <<>>
    ELSE LET n == CountIn(AspectKeywords(AspectOrder[i]), t.words)
         IN  (IF n > 0 THEN <<[aspect |-> AspectOrder[i], count |-> n]>> ELSE <<>>)
             \o DetectedAspects(t, i + 1)

\* insert x after every element whose count is >= x.count (stable, descending)
RECURSIVE InsertByCount(_, _)
InsertByCount(x, sorted) ==
    IF sorted = <<>> THEN <<x>>
    ELSE IF Head(sorted).count >= x.count
         THEN <<Head(sorted)>> \o InsertByCount(x, Tail(sorted))
         ELSE <<x>> \o sorted

\* sorted(detected_aspects.items(), key=count, reverse=True): a stable sort
RECURSIVE SortByCount(_)
SortByCount(items) ==
    IF items = <<>> THEN <<>>
    ELSE InsertByCount(items[Len(items)], SortByCount(SubSeq(items, 1, Len(items) - 1)))

RECURSIVE SumCounts(_)
SumCounts(items) ==
    IF items = <<>> THEN 0 ELSE Head(items).count + SumCounts(Tail(items))

\* AspectExtractor.extract
AspectExtractor_extract(t) ==
    LET sorted_aspects == SortByCount(DetectedAspects(t, 1))
        total_words == Len(t.words)
        total_aspect_words == SumCounts(sorted_aspects)
    IN  [primary_aspect |-> IF sorted_aspects # <<>> THEN sorted_aspects[1].aspect
                            ELSE "general",
         all_aspects    |-> [i \in 1..Len(sorted_aspects) |-> sorted_aspects[i].aspect],
         aspect_counts  |-> sorted_aspects,
         \* total_aspect_words / max(total_words, 1), to 5 decimals
         confidence     |-> Min((total_aspect_words * 100000) \div Max(total_words, 1),
                                100000),
         total_mentions |-> total_aspect_words]

\* main_complete.process_review_complete
process_review_complete(t, business) ==
    LET sentiment_result == analyze_sentiment_complete(t)
        emotion_result == detect_emotions(t, sentiment_result.label)
    IN  [sentiment   |-> sentiment_result,
         emotions    |-> emotion_result,
         aspects     |-> AspectExtractor_extract(t),
         ai_response |-> TemplateResponse(sentiment_result.label,
                                          emotion_result.primary_emotion, business)]

----------------------------------------------------------------------------
(* Specification of the working_nlp_api functions *)

NlpTexts ==
    {MkText(w, v, 0, <<5, 0>>) : w \in WordSeqs \ {<<>>}, v \in VaderSamples}
    \cup {MkText(<<>>, 0, 0, <<5, 0>>)}

RagIdle ==
    /\ available = FALSE
    /\ store = <<>>
    /\ clock = 0
    /\ log = <<>>
    /\ writes = <<>>
    /\ found = <<>>

NlpInit ==
    /\ text \in NlpTexts
    /\ rating \in Ratings
    /\ pc = "input"
    /\ sentiment = NoSentiment
    /\ aspects = <<>>
    /\ complete = <<>>
    /\ emotions = <<>>
    /\ response = <<>>
    /\ RagIdle

AnalyzeSentimentNlp ==
    /\ pc = "input"
    /\ sentiment' = analyze_sentiment_nlp(text, rating)
    /\ pc' = "analyze_sentiment_nlp"
    /\ UNCHANGED <<text, rating, aspects, complete, emotions, response, ragVars>>

ExtractAspectsNlp ==
    /\ pc = "input"
    /\ \E raised \in BOOLEAN : aspects' = extract_aspects_nlp(text, raised)
    /\ pc' = "extract_aspects_nlp"
    /\ UNCHANGED <<text, rating, sentiment, complete, emotions, response, ragVars>>

NlpNext == AnalyzeSentimentNlp \/ ExtractAspectsNlp

SpecNlp == NlpInit /\ [][NlpNext]_vars

----------------------------------------------------------------------------
(* Specification of working_nlp_api.detect_emotions_nlp *)

\* Words of the texts profiled: one or two of each keyword family, and one
\* of no family.
EmotionWords ==
    {"amazing", "thank", "great", "wow", "sick", "terrible", "bad", "scared", "okay"}

\* VADER compounds of the texts profiled; multiples of 0.0002, so that the
\* levels are whole numbers of 0.00001
EmotionCompounds == {-100000, -60000, 0, 20000, 100000}

EmotionTexts ==
    {MkText(w, v, 0, <<5, 0>>) :
        w \in UNION {[1..n -> EmotionWords] : n \in 0..MaxWords}, v \in EmotionCompounds}

\* the labels detect_emotions_nlp is called with, and one it never is
EmotionLabels == {"POSITIVE", "NEGATIVE", "NEUTRAL", "MIXED"}

EmotionInit ==
    /\ text \in EmotionTexts
    /\ rating = NoRating
    /\ pc = "input"
    /\ sentiment = NoSentiment
    /\ aspects = <<>>
    /\ complete = <<>>
    /\ emotions = <<>>
    /\ response = <<>>
    /\ RagIdle

DetectEmotionsNlp ==
    /\ pc = "input"
    /\ \E sentiment_label \in EmotionLabels :
           emotions' = [sentiment_label |-> sentiment_label,
                        map |-> detect_emotions_nlp(text, sentiment_label)]
    /\ pc' = "detect_emotions_nlp"
    /\ UNCHANGED <<text, rating, sentiment, aspects, complete, response, ragVars>>

EmotionNext == DetectEmotionsNlp

SpecEmotion == EmotionInit /\ [][EmotionNext]_vars

----------------------------------------------------------------------------
(* Specification of working_nlp_api.generate_response_nlp *)

ResponseWords ==
    {"sick", "still", "terrible", "disappointed", "cold", "rude", "great", "again",
     "okay", "atmosphere"}

ResponseTexts ==
    {MkText(w, 0, 0, <<5, 0>>) :
        w \in UNION {[1..n -> ResponseWords] : n \in 0..MaxWords}}

AspectEntry(a) == [aspect |-> a, sentiment |-> "negative"]

\* aspect lists extract_aspects_nlp can return, and the string of /api/analyze
AspectArgs ==
    {AspectString, AspectList(<<>>), AspectList(<<AspectEntry("general")>>),
     AspectList(<<AspectEntry("food")>>),
     AspectList(<<AspectEntry("food"), AspectEntry("service")>>),
     AspectList(<<AspectEntry("service"), AspectEntry("price")>>),
     AspectList(<<AspectEntry("ambiance")>>),
     AspectList(<<AspectEntry("food"), AspectEntry("service"), AspectEntry("ambiance")>>)}

NounPhraseLists == {<<>>, <<"phrase 1">>, <<"phrase 1", "phrase 2", "phrase 3">>}

ResponseInit ==
    /\ text \in ResponseTexts
    /\ rating = NoRating
    /\ pc = "input"
    /\ sentiment = NoSentiment
    /\ aspects = <<>>
    /\ complete = <<>>
    /\ emotions = <<>>
    /\ response = <<>>
    /\ RagIdle

GenerateResponseNlp ==
    /\ pc = "input"
    /\ \E sent \in EmotionLabels, aspects_arg \in AspectArgs,
          noun_phrases \in NounPhraseLists, raised \in BOOLEAN :
           response' = [sentiment |-> sent,
                        aspects   |-> aspects_arg,
                        raised    |-> raised,
                        text      |-> generate_response_nlp(text, sent, aspects_arg,
                                                            noun_phrases, raised)]
    /\ pc' = "generate_response_nlp"
    /\ UNCHANGED <<text, rating, sentiment, aspects, complete, emotions, ragVars>>

ResponseNext == GenerateResponseNlp

SpecResponse == ResponseInit /\ [][ResponseNext]_vars

----------------------------------------------------------------------------
(* Specification of the working_nlp_api entry points that run the pipeline *)
(* on one review: log is the sequence of results they have returned        *)

EndpointWords == {"great", "food", "terrible", "service", "okay"}

EndpointCompounds == {-80000, 0, 80000}

EndpointTexts ==
    {MkText(w, v, 0, <<5, 0>>) :
        w \in UNION {[1..n -> EndpointWords] : n \in 1..MaxWords},
        v \in EndpointCompounds}

\* the rating of the request or of the stored review: absent, 1 or 5 stars
EndpointRatings == {NoRating, NumRating(10), NumRating(50)}

\* review_data.get("rating", 5)
RatingOrDefault(r) == IF r.kind = "absent" THEN NumRating(50) ELSE r

\* [str(np) for np in blob.noun_phrases if len(str(np)) > 3][:3]: the nouns
\* among the words of the text
NounsOf(w) ==
    SelectSeq(w, LAMBDA x : x \in {"food", "service"})

NounPhrasesOf(t) == SubSeq(NounsOf(t.words), 1, Min(3, Len(NounsOf(t.words))))

\* The four stages in sequence on text t with rating r.  by_name is TRUE
\* when the caller hands the business name to the composer in the place of
\* the aspects; raised is TRUE when TextBlob's noun-phrase extraction
\* raises in this deployment.
RunPipeline(entry, t, r, by_name, raised) ==
    LET sentiment_result == analyze_sentiment_nlp(t, r)
        found_aspects == extract_aspects_nlp(t, raised)
        passed == IF by_name THEN AspectString ELSE AspectList(found_aspects)
    IN  [entry     |-> entry,
         sentiment |-> sentiment_result,
         intensity |-> EmotionIntensity(t),
         emotions  |-> detect_emotions_nlp(t, sentiment_result.label),
         aspects   |-> found_aspects,
         passed    |-> passed,
         raised    |-> raised,
         response  |-> generate_response_nlp(t, sentiment_result.label, passed,
                                             NounPhrasesOf(t), raised)]

EndpointInit ==
    /\ text \in EndpointTexts
    /\ rating \in EndpointRatings
    /\ pc = "input"
    /\ sentiment = NoSentiment
    /\ aspects = <<>>
    /\ complete = <<>>
    /\ emotions = <<>>
    /\ response = <<>>
    /\ available = FALSE
    /\ store = <<>>
    /\ clock = 0
    /\ log = <<>>
    /\ writes = <<>>
    /\ found = <<>>

\* what every entry point leaves in the state
Returned(result) ==
    /\ log' = Append(log, result)
    /\ pc' = result.entry
    /\ sentiment' = result.sentiment
    /\ emotions' = [sentiment_label |-> result.sentiment.label, map |-> result.emotions]
    /\ aspects' = result.aspects
    /\ response' = [sentiment |-> result.sentiment.label, aspects |-> result.passed,
                    raised |-> result.raised, text |-> result.response]
    /\ UNCHANGED <<text, rating, complete, available, store, clock, writes, found>>

\* POST /api/analyze: no rating; request.business_name goes to the composer
AnalyzeReviewNlp ==
    /\ Len(log) < MaxCalls
    /\ \E raised \in BOOLEAN :
        Returned(RunPipeline("analyze_review", text, NoRating, TRUE, raised))

\* POST /api/google/fetch-reviews, for one fetched review
FetchGoogleReviews ==
    /\ Len(log) < MaxCalls
    /\ \E raised \in BOOLEAN :
        Returned(RunPipeline("fetch_google_reviews_endpoint", text,
                             RatingOrDefault(rating), FALSE, raised))

\* POST /api/reviews/bulk, for one review of the request
CreateBulkReviews ==
    /\ Len(log) < MaxCalls
    /\ \E raised \in BOOLEAN :
        Returned(RunPipeline("create_bulk_reviews", text,
                             RatingOrDefault(rating), FALSE, raised))

\* POST /api/reviews/reanalyze-all, for one stored review (its rating column
\* holds what the route that created it stored)
ReanalyzeAllReviews ==
    /\ Len(log) < MaxCalls
    /\ \E raised \in BOOLEAN :
        Returned(RunPipeline("reanalyze_all_reviews", text,
                             RatingOrDefault(rating), FALSE, raised))

EndpointNext ==
    \/ AnalyzeReviewNlp
    \/ FetchGoogleReviews
    \/ CreateBulkReviews
    \/ ReanalyzeAllReviews

SpecEndpoints == EndpointInit /\ [][EndpointNext]_vars

----------------------------------------------------------------------------
(* Specification of main_complete.process_review_complete *)

CompleteTexts ==
    {MkText(w, 0, b, <<5, 0>>) : w \in WordSeqs \ {<<>>}, b \in BlobSamples}
    \cup {MkText(<<>>, 0, 0, <<5, 0>>)}

CompleteInit ==
    /\ text \in CompleteTexts
    /\ rating \in {NoRating} \cup {NumRating(v) : v \in {10, 50}}
    /\ pc = "input"
    /\ sentiment = NoSentiment
    /\ aspects = <<>>
    /\ complete = <<>>
    /\ emotions = <<>>
    /\ response = <<>>
    /\ RagIdle

\* analyze_complete up to the analysis it persists
ProcessReviewComplete ==
    /\ pc = "input"
    /\ \E business \in Businesses :
           complete' = process_review_complete(text, business)
    /\ pc' = "process_review_complete"
    /\ UNCHANGED <<text, rating, sentiment, aspects, emotions, response, ragVars>>

CompleteNext == ProcessReviewComplete

SpecComplete == CompleteInit /\ [][CompleteNext]_vars

----------------------------------------------------------------------------
(* aspect_extractor.py: AspectExtractor.get_aspect_sentiment, over texts    *)
(* whose character offsets count.  A text is its tokens joined by single   *)
(* spaces; the token "filler" stands for 60 characters of words that are   *)
(* in no table.                                                            *)

positive_words ==
    {"good", "great", "excellent", "amazing", "wonderful", "fantastic",
     "love", "best", "perfect", "delicious", "friendly", "clean"}

negative_words ==
    {"bad", "terrible", "awful", "horrible", "worst", "hate", "poor",
     "disappointing", "slow", "rude", "dirty", "cold"}

Tokens == {"food", "dish", "great", "terrible", "filler"}

\* len(token)
TokenLen(w) ==
    CASE w = "food" -> 4
      [] w = "dish" -> 4
      [] w = "great" -> 5
      [] w = "terrible" -> 8
      [] w = "filler" -> 60

\* the offset in text_lower of the i-th token
RECURSIVE OffsetOf(_, _)
OffsetOf(w, i) == IF i = 1 THEN 0 ELSE OffsetOf(w, i - 1) + TokenLen(w[i - 1]) + 1

\* len(text_lower)
TextLen(w) == IF w = <<>> THEN 0 ELSE OffsetOf(w, Len(w)) + TokenLen(w[Len(w)])

\* the tokens that are the word kw
Occurrences(w, kw) == {i \in 1..Len(w) : w[i] = kw}

\* text_lower.find(keyword): the first occurrence
FirstOccurrence(w, kw) ==
    CHOOSE i \in Occurrences(w, kw) : \A j \in Occurrences(w, kw) : i <= j

\* `word in context` for context = text_lower[max(0, idx-50):min(len, idx+50)]
\* around the token at position at: some token that is the word lies
\* wholly inside the slice
InContext(w, at, word) ==
    LET idx == OffsetOf(w, at)
        lo == Max(0, idx - 50)
        hi == Min(TextLen(w), idx + 50)
    IN  \E i \in Occurrences(w, word) :
            OffsetOf(w, i) >= lo /\ OffsetOf(w, i) + TokenLen(w[i]) <= hi

\* the words of a table found in the context of the token at position at
ContextHits(w, at, table) == Cardinality({x \in table : InContext(w, at, x)})

\* the score a table collects over the keywords of the aspect
RECURSIVE SumHits(_, _, _)
SumHits(w, kws, table) ==
    IF kws = {} THEN 0
    ELSE LET kw == CHOOSE k \in kws : TRUE
         IN  ContextHits(w, FirstOccurrence(w, kw), table)
             + SumHits(w, kws \ {kw}, table)

\* AspectExtractor.get_aspect_sentiment(text, aspect)
get_aspect_sentiment(t, aspect) ==
    LET present == {kw \in AspectKeywords(aspect) : Occurrences(t.words, kw) # {}}
        positive_score == SumHits(t.words, present, positive_words)
        negative_score == SumHits(t.words, present, negative_words)
    IN  IF positive_score > negative_score THEN "POSITIVE"
        ELSE IF negative_score > positive_score THEN "NEGATIVE"
        ELSE "NEUTRAL"

TokenTexts ==
    {MkText(w, 0, 0, <<5, 0>>) : w \in UNION {[1..n -> Tokens] : n \in 0..MaxTokens}}

AspectSentimentInit ==
    /\ text \in TokenTexts
    /\ rating = NoRating
    /\ pc = "input"
    /\ sentiment = NoSentiment
    /\ aspects = <<>>
    /\ complete = <<>>
    /\ emotions = <<>>
    /\ response = <<>>
    /\ RagIdle

\* extractor.get_aspect_sentiment(text, "food")
GetAspectSentiment ==
    /\ pc = "input"
    /\ aspects' = <<[aspect |-> "food", sentiment |-> get_aspect_sentiment(text, "food")]>>
    /\ pc' = "get_aspect_sentiment"
    /\ UNCHANGED <<text, rating, sentiment, complete, emotions, response, ragVars>>

AspectSentimentNext == GetAspectSentiment

SpecAspectSentiment == AspectSentimentInit /\ [][AspectSentimentNext]_vars

----------------------------------------------------------------------------
(* Specification of main_production.analyze_review over the shared index *)

RagText(w, b, e) == MkText(w, 0, b, e)

\* The reviews submitted.  Distinct texts have distinct embeddings.
ReviewA ==
    [text |-> RagText(<<"great", "food">>, 50000, <<5, 0>>),
     rating |-> NumRating(50), business_name |-> "Your Business", platform |-> "unknown"]
ReviewB ==
    [text |-> RagText(<<"food", "okay">>, 26000, <<4, 3>>),
     rating |-> NumRating(50), business_name |-> "Your Business", platform |-> "unknown"]
ReviewC ==
    [text |-> RagText(<<"terrible", "service">>, -50000, <<-5, 0>>),
     rating |-> NumRating(10), business_name |-> "Cafe Uno", platform |-> "unknown"]

Reviews == {ReviewA, ReviewB, ReviewC}

\* datetime.now().timestamp(): the wall clock has not moved since the last
\* reading, or it has
ClockReadings == {clock, clock + 1}

\* What get_or_create_collection finds at start-up: nothing, or a review
\* an earlier run ingested.
PersistedReview ==
    [text |-> RagText(<<"food", "clean">>, 40000, <<3, 4>>),
     rating |-> NumRating(40), business_name |-> "Your Business", platform |-> "unknown"]

InitialStores ==
    {<<>>,
     <<MkEntry(ReviewId(-1), PersistedReview.text, ReviewMetadata(PersistedReview))>>}

Init ==
    /\ available \in BOOLEAN     \* whether `from rag_system import ReviewRAG` worked
    /\ store \in InitialStores
    /\ clock = 0
    /\ log = <<>>
    /\ writes = <<>>
    /\ found = <<>>
    /\ text = MkText(<<>>, 0, 0, <<5, 0>>)
    /\ rating = NoRating
    /\ pc = "serving"
    /\ sentiment = NoSentiment
    /\ aspects = <<>>
    /\ complete = <<>>
    /\ emotions = <<>>
    /\ response = <<>>

\* POST /api/analyze
AnalyzeReview ==
    /\ Len(log) < MaxCalls
    /\ \E review \in Reviews :
         \E lookup \in Lookups(available, store, review.text,
                               analyze_sentiment(review.text).label) :
           \E now \in ClockReadings, add_raises \in BOOLEAN,
              outcome \in DuplicateOutcomes :
             LET result == AnalysisResult(review, available, lookup, now)
                 added == add_review(store, review.text, ReviewMetadata(review),
                                     now, outcome)
                 writes_ok == result.success /\ available /\ ~add_raises
             IN  /\ store' = IF writes_ok THEN added.store ELSE store
                 /\ clock' = now
                 /\ log' = Append(log,
                        [review |-> review,
                         result |-> result,
                         lookup |-> lookup,
                         before |-> store,
                         write_raised |->
                             /\ result.success
                             /\ available
                             /\ (add_raises \/ added.raised)])
    /\ UNCHANGED <<nlpVars, available, writes, found>>

Next == AnalyzeReview

Spec == Init /\ [][Next]_vars

\* the request bodies of /api/bulk-analyze: lists of reviews
BulkRequests == {<<ReviewA>>, <<ReviewC, ReviewA>>}

\* what bulk_analyze records for one review of the list: the lookup reads
\* the index, nothing is written
BulkEntry(review, lookup) ==
    [review |-> review,
     result |-> LET r == AnalysisResult(review, available, lookup, clock)
                IN  [success     |-> r.success,
                     text        |-> review.text,
                     sentiment   |-> r.sentiment,
                     emotions    |-> r.emotions,
                     ai_response |-> r.ai_response],
     lookup |-> lookup,
     before |-> store,
     write_raised |-> FALSE,
     entry |-> "bulk_analyze"]

\* POST /api/bulk-analyze
BulkAnalyze ==
    /\ \E reviews \in BulkRequests :
         /\ Len(log) + Len(reviews) <= MaxCalls
         /\ \E lookups \in [1..Len(reviews) ->
                               UNION {Lookups(available, store, reviews[i].text,
                                              analyze_sentiment(reviews[i].text).label) :
                                      i \in 1..Len(reviews)}] :
              /\ \A i \in 1..Len(reviews) :
                     lookups[i] \in Lookups(available, store, reviews[i].text,
                                            analyze_sentiment(reviews[i].text).label)
              /\ log' = log \o [i \in 1..Len(reviews) |->
                                    BulkEntry(reviews[i], lookups[i])]
    /\ UNCHANGED <<nlpVars, available, store, clock, writes, found>>

ProductionNext == AnalyzeReview \/ BulkAnalyze

SpecProduction == Init /\ [][ProductionNext]_vars

----------------------------------------------------------------------------
(* Specification of ReviewRAG._extract_themes and _build_response applied  *)
(* to one list of retrieved reviews: found holds the list and the          *)
(* sentiment, response what was composed from them                         *)

\* n_results of the lookup of generate_response
TopN == 3

ThemeTexts ==
    {MkText(w, 0, 0, <<5, 0>>) :
        w \in {<<"food", "service">>, <<"service">>, <<"food", "price">>,
               <<"price">>, <<"okay">>}}

\* one entry of what find_similar_reviews returns
Retrieved(t) ==
    [text |-> t, metadata |-> [sentiment |-> ""], similarity |-> 100000,
     id |-> ReviewId(0)]

\* the lists the lookup can return: at most TopN reviews
RetrievedLists ==
    UNION {[1..n -> {Retrieved(t) : t \in ThemeTexts}] : n \in 0..TopN}

ThemesInit ==
    /\ found \in {<<[op |-> "find_similar_reviews", sentiment_filter |-> sent,
                      results |-> similar]>> :
                      sent \in {"POSITIVE", "NEGATIVE", "NEUTRAL"},
                      similar \in RetrievedLists}
    /\ pc = "input"
    /\ text = MkText(<<>>, 0, 0, <<5, 0>>)
    /\ rating = NoRating
    /\ sentiment = NoSentiment
    /\ aspects = <<>>
    /\ complete = <<>>
    /\ emotions = <<>>
    /\ response = <<>>
    /\ available = TRUE
    /\ store = <<>>
    /\ clock = 0
    /\ log = <<>>
    /\ writes = <<>>

\* themes = self._extract_themes(similar);
\* response = self._build_response(review_text, sentiment, themes, business_name)
BuildResponse ==
    /\ pc = "input"
    /\ \E business \in Businesses :
         response' = [sentiment |-> found[1].sentiment_filter,
                      themes |-> ExtractThemes(found[1].results, 1),
                      text |-> rag_generate_response(found[1].sentiment_filter,
                                                     found[1].results, business)]
    /\ pc' = "generate_response"
    /\ UNCHANGED <<text, rating, sentiment, aspects, complete, emotions, ragVars>>

ThemesNext == BuildResponse

SpecThemes == ThemesInit /\ [][ThemesNext]_vars

----------------------------------------------------------------------------
(* Specification of the ReviewRAG operations on one index *)

IndexInit ==
    /\ available = TRUE
    /\ store = <<>>
    /\ clock = 0
    /\ log = <<>>
    /\ writes = <<>>
    /\ found = <<>>
    /\ text = MkText(<<>>, 0, 0, <<5, 0>>)
    /\ rating = NoRating
    /\ pc = "index"
    /\ sentiment = NoSentiment
    /\ aspects = <<>>
    /\ complete = <<>>
    /\ emotions = <<>>
    /\ response = <<>>

RECURSIVE SumRemoved(_)
SumRemoved(l) == IF l = <<>> THEN 0 ELSE Head(l).removed + SumRemoved(Tail(l))

\* entries the purges so far have removed
Purged == SumRemoved(log)

Written(id, t) == [id |-> id, text |-> t]

\* rag.add_review(review_text, metadata)
AddReview ==
    /\ Purged + Len(writes) < MaxStore
    /\ \E review \in Reviews, now \in ClockReadings, outcome \in DuplicateOutcomes :
         LET r == add_review(store, review.text, ReviewMetadata(review), now, outcome)
         IN  /\ store' = r.store
             /\ clock' = now
             /\ writes' = IF r.raised THEN writes
                          ELSE Append(writes, Written(r.id, review.text))
             /\ found' = <<>>
    /\ UNCHANGED <<nlpVars, available, log>>

BatchItem(review) == [text |-> review.text, metadata |-> ReviewMetadata(review)]

Batches == {<<BatchItem(ReviewA), BatchItem(ReviewC)>>}

\* rag.add_reviews_batch(reviews)
AddReviewsBatch ==
    /\ \E batch \in Batches, now \in ClockReadings, outcome \in DuplicateOutcomes :
         /\ Purged + Len(writes) + Len(batch) <= MaxStore
         /\ LET r == add_reviews_batch(store, batch, now, outcome)
            IN  /\ store' = r.store
                /\ clock' = now
                /\ writes' = IF r.raised THEN writes
                             ELSE writes \o [i \in 1..Len(batch) |->
                                                Written(r.ids[i], batch[i].text)]
                /\ found' = <<>>
    /\ UNCHANGED <<nlpVars, available, log>>

\* rag.find_similar_reviews(query, n_results, sentiment_filter)
FindSimilarReviews ==
    /\ \E query \in {ReviewA, ReviewC}, n_results \in {1, 2},
          sentiment_filter \in {"", "POSITIVE"} :
         \E res \in find_similar_reviews(store, query.text, n_results, sentiment_filter) :
            found' = <<[op |-> "find_similar_reviews",
                        query |-> query.text, n_results |-> n_results,
                        sentiment_filter |-> sentiment_filter, results |-> res]>>
    /\ UNCHANGED <<nlpVars, available, store, clock, log, writes>>

\* rag.generate_response(review_text, sentiment, business_name)
GenerateResponse ==
    /\ \E review \in {ReviewA, ReviewC} :
         LET sent == analyze_sentiment(review.text).label
         IN  \E similar \in find_similar_reviews(store, review.text, 3, sent) :
                found' = <<[op |-> "generate_response",
                            query |-> review.text,
                            response |-> rag_generate_response(sent, similar,
                                                               review.business_name)]>>
    /\ UNCHANGED <<nlpVars, available, store, clock, log, writes>>

\* rag.get_stats()
GetStats ==
    /\ \E raised \in BOOLEAN :
         found' = <<[op |-> "get_stats", stats |-> get_stats(store, raised)]>>
    /\ UNCHANGED <<nlpVars, available, store, clock, log, writes>>

\* rag.clear_database(); log keeps how many entries each purge that found
\* entries removed, writes the writes made since the last purge
ClearDatabase ==
    /\ store = <<>> \/ Len(log) < MaxPurges
    /\ store' = clear_database(store)
    /\ log' = IF store = <<>> THEN log
              ELSE Append(log, [op |-> "clear_database", removed |-> Len(store)])
    /\ writes' = <<>>
    /\ found' = <<>>
    /\ UNCHANGED <<nlpVars, available, clock>>

IndexNext ==
    \/ AddReview
    \/ AddReviewsBatch
    \/ FindSimilarReviews
    \/ GenerateResponse
    \/ GetStats
    \/ ClearDatabase

SpecIndex == IndexInit /\ [][IndexNext]_vars

----------------------------------------------------------------------------
(* Properties of the Sentiment Scorer (SpecNlp) *)

Scored == pc = "analyze_sentiment_nlp"

LowRating == rating.kind = "number" /\ rating.val <= 20

InRange == rating.kind = "number" /\ rating.val >= 10 /\ rating.val <= 50

\* C1: rating dominance - whenever a rating <= 2.0 is supplied, the label
\* returned by analyze_sentiment_nlp is NEGATIVE, whatever the text.  Stated
\* for the ratings of the data model, 1.0 to 2.0 stars.
C1_RatingDominance ==
    (Scored /\ LowRating /\ InRange) => sentiment.label = "NEGATIVE"

C9_OutOfRangeRatingIgnored ==
    (Scored /\ rating.kind = "number" /\ (rating.val < 10 \/ rating.val > 50)) =>
        sentiment = analyze_sentiment_nlp(text, NoRating)

Labels == {"POSITIVE", "NEGATIVE", "NEUTRAL"}

\* C10 as stated: the label is one of the three values and is POSITIVE iff
\* the reported polarity is >= 0.05, NEGATIVE iff it is <= -0.05.
C10_LabelMatchesReportedPolarity ==
    Scored =>
        /\ sentiment.label \in Labels
        /\ sentiment.label = "POSITIVE" <=> sentiment.polarity >= 5000
        /\ sentiment.label = "NEGATIVE" <=> sentiment.polarity <= -5000

\* C10 amended: the label is one of the three values; a POSITIVE result
\* reports a polarity >= 0.05, a NEGATIVE one <= -0.05, a NEUTRAL one a
\* polarity in [-0.05, 0.05]; a reported polarity above 0.05 is POSITIVE and
\* one below -0.05 is NEGATIVE.  (A result reporting exactly 0.05 or -0.05
\* may be NEUTRAL: the label is decided before the rounding.)
C10_LabelWithinRoundedThresholds ==
    Scored =>
        /\ sentiment.label \in Labels
        /\ sentiment.label = "POSITIVE" => sentiment.polarity >= 5000
        /\ sentiment.label = "NEGATIVE" => sentiment.polarity <= -5000
        /\ sentiment.label = "NEUTRAL" =>
               (sentiment.polarity >= -5000 /\ sentiment.polarity <= 5000)
        /\ sentiment.polarity > 5000 => sentiment.label = "POSITIVE"
        /\ sentiment.polarity < -5000 => sentiment.label = "NEGATIVE"

C10_Witness ==
    /\ Scored
    /\ sentiment.scored
    /\ sentiment.label = "NEUTRAL"
    /\ sentiment.polarity = 5000

----------------------------------------------------------------------------
(* Properties of the Aspect Extractor *)

\* C3: the aspects list of every analysis result is non-empty - here the
\* all_aspects list that process_review_complete returns and analyze_complete
\* persists, for a text of at least one word.
C3_AspectsNeverEmpty ==
    (pc = "process_review_complete" /\ text.words # <<>>) =>
        Len(complete.aspects.all_aspects) >= 1

----------------------------------------------------------------------------
(* Properties of analyze_review over the index (Spec) *)

Calls == 1..Len(log)

\* the index did not fail during call i
IndexWorked(i) == ~log[i].lookup.raised /\ ~log[i].write_raised

\* call i composed its response from templates alone
TemplateOnly(i) == ~log[i].lookup.made \/ log[i].lookup.raised

SameAnalysis(r1, r2) ==
    /\ r1.sentiment = r2.sentiment
    /\ r1.emotions = r2.emotions
    /\ r1.ai_response = r2.ai_response

IsTemplateFor(r) ==
    /\ r.ai_response.response.source = "template"
    /\ r.ai_response.response.row = r.sentiment.label
    /\ r.ai_response.response.key \in {r.emotions.primary_emotion, "default"}
    /\ r.ai_response.confidence <= 85000

\* C5 as stated: whenever the index is unavailable, or the lookup raises, or
\* the write of the analyzed review raises, analyze_review succeeds and its
\* response is the template-only one, with confidence at most 0.85.
C5_IndexFailureGivesTemplate ==
    \A i \in Calls :
        (~available \/ log[i].lookup.raised \/ log[i].write_raised) =>
            /\ log[i].result.success
            /\ IsTemplateFor(log[i].result)

\* C5 amended: in all three cases analyze_review succeeds; when the index is
\* unavailable or the lookup raised, the response is the template-only one
\* for the same sentiment and emotion, with confidence at most 0.85.  (When
\* only the write raised, the response is the one composed before the write.)
C5_AnalysisSurvivesIndexFailure ==
    \A i \in Calls :
        /\ log[i].result.success
        /\ (~available \/ log[i].lookup.raised) => IsTemplateFor(log[i].result)

C5_Witness ==
    \E i, j \in Calls :
        /\ available
        /\ log[i].lookup.raised
        /\ log[i].result.success
        /\ IsTemplateFor(log[i].result)
        /\ log[j].write_raised
        /\ log[j].result.success

\* C6: a result whose response was composed template-only because the lookup
\* failed for that request has rag_enabled false.
C6_DegradationSurfaced ==
    \A i \in Calls :
        (log[i].result.success /\ log[i].lookup.made /\ log[i].lookup.raised) =>
            log[i].result.rag_enabled = FALSE

\* the ai_response values analyze_review can return for a review when the
\* index holds st and its lookup succeeds (or is not made)
PossibleResponses(review, st) ==
    {AnalysisResult(review, available, l, 0).ai_response :
        l \in {x \in Lookups(available, st, review.text,
                             analyze_sentiment(review.text).label) : ~x.raised}}

\* st after the ingest of review
Ingested(st, review) ==
    IF available
    THEN Append(st, MkEntry(ReviewId(clock + 1), review.text, ReviewMetadata(review)))
    ELSE st

\* calls i and i+1 analyzed two distinct reviews and the index did not fail
Pair(i) ==
    /\ i + 1 \in Calls
    /\ log[i].review # log[i + 1].review
    /\ log[i].result.success /\ log[i + 1].result.success
    /\ IndexWorked(i) /\ IndexWorked(i + 1)

\* the responses of calls i (review A) and i+1 (review B) are responses the
\* opposite order, B then A from the same index contents, can give
SameInOppositeOrder(i) ==
    /\ log[i + 1].result.ai_response \in
           PossibleResponses(log[i + 1].review, log[i].before)
    /\ log[i].result.ai_response \in
           PossibleResponses(log[i].review, Ingested(log[i].before, log[i + 1].review))

\* C7 as stated: analyzing A then B gives the same results for A and for B
\* as analyzing B then A, for any index contents.
C7_OrderIndependent ==
    \A i \in Calls : Pair(i) => SameInOppositeOrder(i)

DifferentSentiment(i) ==
    log[i].result.sentiment.label # log[i + 1].result.sentiment.label

\* C7 amended: sentiment, emotions and tone of each review do not depend on
\* the order; the response text and confidence do not either when the index
\* is unavailable or A and B have different sentiment labels (a lookup
\* retrieves only reviews of the same sentiment), the lookups succeeding.
C7_OrderIndependentAcrossSentiments ==
    \A i \in Calls :
        Pair(i) =>
            /\ \A k \in {i, i + 1} :
                  /\ log[k].result.sentiment = analyze_sentiment(log[k].review.text)
                  /\ log[k].result.ai_response.tone = ToneOf(log[k].result.sentiment.label)
            /\ (~available \/ DifferentSentiment(i)) => SameInOppositeOrder(i)

C7_Witness ==
    \E i \in Calls :
        /\ Pair(i)
        /\ available
        /\ DifferentSentiment(i)
        /\ Len(log[i].before) >= 1
        /\ Len(store) = Len(log[i].before) + 2
        /\ SameInOppositeOrder(i)

----------------------------------------------------------------------------
(* Properties of the Embedding Index (SpecIndex) *)

DistinctVectors ==
    \A a, b \in 1..Len(writes) : a # b => writes[a].text.vec # writes[b].text.vec

\* C4: after writes that each returned an id, of reviews with distinct
\* vectors, the store holds one entry per write, and a query with the vector
\* of a written review returns that review first, with similarity 1.
C4_WritesVisible ==
    DistinctVectors =>
        /\ Len(store) = Len(writes)
        /\ \A a \in 1..Len(writes) :
              \A res \in find_similar_reviews(store, writes[a].text, 1, "") :
                  /\ Len(res) = 1
                  /\ res[1].text = writes[a].text
                  /\ res[1].similarity = 100000

----------------------------------------------------------------------------
(* Score and override order of the Sentiment Scorer (SpecNlp) *)

WellFormedRating == rating = NoRating \/ InRange

\* min(0.5 + 0.5*|p|, 0.99), rounded as the result reports it
ClaimedScore(p) == Round3(Min(50000 + Abs(p) \div 2, 99000))

\* C11 as stated: for every result, whatever its label, the score is
\* min(0.5 + 0.5*|polarity|, 0.99) of the final polarity, and lies in
\* [0.5, 0.99].
C11_ScoreFormula ==
    (Scored /\ sentiment.scored /\ WellFormedRating) =>
        /\ sentiment.score = ClaimedScore(FinalCompound(text, rating))
        /\ sentiment.score >= 50000 /\ sentiment.score <= 99000

\* C11 amended: a POSITIVE or NEGATIVE result has score
\* min(0.5 + 0.5*|polarity|, 0.99); a NEUTRAL result has score 0.5 whatever
\* its polarity (which can be any value in (-0.05, 0.05)); in every result
\* the score lies in [0.5, 0.99].
C11_ScoreFormulaUnlessNeutral ==
    Scored =>
        /\ sentiment.label # "NEUTRAL" =>
               sentiment.score = ClaimedScore(FinalCompound(text, rating))
        /\ sentiment.label = "NEUTRAL" => sentiment.score = 50000
        /\ sentiment.score >= 50000 /\ sentiment.score <= 99000

C11_Witness ==
    /\ Scored
    /\ sentiment.label = "POSITIVE"
    /\ text.vader = 99000
    /\ sentiment.score = 99000

\* C12 as stated: the final polarity is the lexical polarity after the
\* strong-negative clamp first and the low-rating override second.
C12_ClampThenRating ==
    (Scored /\ sentiment.scored /\ WellFormedRating) =>
        sentiment.polarity =
            Round3(RatingCorrection(StrongNegativeOverride(text.vader, text), rating))

\* C12 amended: the low-rating override is applied first and the
\* strong-negative clamp second; so with a strong-negative phrase, a rating
\* <= 2.0 and a lexical polarity >= 0 the final polarity is -0.5, where the
\* stated order gives min(p - 0.4, -0.3).
C12_RatingThenClamp ==
    (Scored /\ sentiment.scored) =>
        /\ sentiment.polarity =
               Round3(StrongNegativeOverride(RatingCorrection(text.vader, rating), text))
        /\ (has_strong_negative(text) /\ LowRating /\ text.vader >= 0) =>
               sentiment.polarity = -50000

C12_Witness ==
    /\ Scored
    /\ has_strong_negative(text)
    /\ LowRating /\ InRange
    /\ text.vader = 50000
    /\ sentiment.polarity = -50000

----------------------------------------------------------------------------
(* Properties of the Emotion Profiler (SpecEmotion) *)

Profiled == pc = "detect_emotions_nlp"

Emitted == DOMAIN emotions.map

\* the largest level each branch can give an emotion
FamilyCap(sentiment_label, e) ==
    IF sentiment_label = "POSITIVE"
    THEN (CASE e = "joy" -> IF AnyIn(StrongJoyWords, text) THEN 95000
                            ELSE IF AnyIn(ModerateJoyWords, text) THEN 80000
                            ELSE 65000
            [] e = "gratitude" -> 90000
            [] e = "surprise" -> 75000
            [] OTHER -> 0)
    ELSE IF sentiment_label = "NEGATIVE"
    THEN (CASE e = "disgust" -> 95000
            [] e = "anger" -> IF AnyIn(DisgustWords, text) THEN 85000 ELSE 90000
            [] e = "disappointment" ->
                   IF AnyIn(StrongAngerWords, text) THEN 80000 ELSE 75000
            [] e = "sadness" -> IF AnyIn(SadnessWords, text) THEN 80000 ELSE 60000
            [] e = "fear" -> 75000
            [] OTHER -> 0)
    ELSE (IF e = "neutral" THEN 70000 ELSE 0)

\* C13: for every text and every label, known or not, detect_emotions_nlp
\* returns a non-empty mapping whose levels lie in [0,1] and do not exceed
\* the cap of the family that produced them.
C13_EmotionsNonEmptyAndCapped ==
    Profiled =>
        /\ Emitted # {}
        /\ \A e \in Emitted :
              /\ emotions.map[e] >= 0
              /\ emotions.map[e] <= 100000
              /\ emotions.map[e] <= FamilyCap(emotions.sentiment_label, e)

C13_Witness ==
    /\ Profiled
    /\ emotions.sentiment_label = "POSITIVE"
    /\ In("amazing", text)
    /\ Abs(text.vader) = 100000
    /\ emotions.map["joy"] = 95000

\* the emotions of the first matching POSITIVE family, in the stated order
FirstPositiveFamily(t) ==
    IF AnyIn(StrongJoyWords, t) THEN {"joy"}
    ELSE IF AnyIn(ModerateJoyWords, t) THEN {"joy"}
    ELSE IF AnyIn(SurpriseWords, t) THEN {"surprise"}
    ELSE IF AnyIn(GratitudeWords, t) THEN {"gratitude"}
    ELSE {"joy"}

NoPositiveFamily(t) ==
    ~AnyIn(StrongJoyWords \cup ModerateJoyWords \cup SurpriseWords \cup GratitudeWords, t)

\* C19: in the POSITIVE branch the emitted emotions are exactly those of the
\* first matching family in the order strong-joy, moderate-satisfaction,
\* surprise, gratitude, and the default joy (0.65) is emitted iff no family
\* matches.  Stated for the texts a POSITIVE label is computed for, those
\* with VADER compound >= 0.05.
C19_PositiveFirstFamilyOnly ==
    (Profiled /\ emotions.sentiment_label = "POSITIVE" /\ text.vader >= 5000) =>
        /\ Emitted = FirstPositiveFamily(text)
        /\ (Emitted = {"joy"} /\ emotions.map["joy"] = 65000) <=> NoPositiveFamily(text)

\* the emotions of the first matching NEGATIVE family, in the stated order
FirstNegativeFamily(t) ==
    IF AnyIn(DisgustWords, t) THEN {"disgust", "anger"}
    ELSE IF AnyIn(StrongAngerWords, t) THEN {"anger", "disappointment"}
    ELSE IF AnyIn(SadnessWords, t) THEN {"sadness", "disappointment"}
    ELSE IF AnyIn(FearWords, t) THEN {"fear"}
    ELSE {"sadness"}

\* C20: in the NEGATIVE branch exactly one family fires, the first matching
\* in the order health/disgust, strong-anger, disappointment/sadness, fear;
\* health/disgust puts anger strictly below disgust; sadness alone is
\* emitted iff no family matches.
C20_NegativeFirstFamilyOnly ==
    (Profiled /\ emotions.sentiment_label = "NEGATIVE") =>
        /\ Emitted = FirstNegativeFamily(text)
        /\ AnyIn(DisgustWords, text) => emotions.map["anger"] < emotions.map["disgust"]
        /\ Emitted = {"sadness"} <=>
               ~AnyIn(DisgustWords \cup StrongAngerWords \cup SadnessWords \cup FearWords,
                      text)

C20_Witness ==
    /\ Profiled
    /\ emotions.sentiment_label = "NEGATIVE"
    /\ In("sick", text) /\ In("terrible", text)
    /\ Emitted = {"disgust", "anger"}
    /\ emotions.map["anger"] < emotions.map["disgust"]

----------------------------------------------------------------------------
(* Properties of the Response Composer (SpecResponse) *)

Composed == pc = "generate_response_nlp"

AspectClauses ==
    {"food_temperature", "food_quality", "food_preparation", "service_behavior",
     "service_speed", "service_training", "price_feedback"}

HasClause(clauses) == \E i \in 1..Len(response.text) : response.text[i] \in clauses

----------------------------------------------------------------------------
(* Retrieval effect on the confidence (Spec) *)

\* the themes call i composed its response with
Themes(i) == ExtractThemes(log[i].lookup.similar, 1)

WithThemes(i) ==
    /\ log[i].result.success
    /\ log[i].lookup.made /\ ~log[i].lookup.raised
    /\ Themes(i) # <<>>

WithoutThemes(i) ==
    /\ log[i].result.success
    /\ (TemplateOnly(i) \/ Themes(i) = <<>>)

\* C15: for the same review, the confidence of a response composed with
\* non-empty retrieved themes is at least the confidence of the response
\* composed without themes, be it template-only or retrieval with no theme.
C15_RetrievalConfidence ==
    \A i \in Calls :
        WithThemes(i) =>
            /\ \A j \in Calls :
                  (log[j].review = log[i].review /\ WithoutThemes(j)) =>
                      log[i].result.ai_response.confidence
                          >= log[j].result.ai_response.confidence
            /\ log[i].result.ai_response.confidence
                   >= TemplateResponse(log[i].result.sentiment.label,
                                       log[i].result.emotions.primary_emotion,
                                       log[i].review.business_name).confidence

C15_Witness ==
    \E i, j \in Calls :
        /\ log[j].review = log[i].review
        /\ WithThemes(i)
        /\ log[j].result.success /\ TemplateOnly(j)
        /\ log[i].result.ai_response.confidence = 90000
        /\ log[j].result.ai_response.confidence = 85000

----------------------------------------------------------------------------
(* Aspect fallback of extract_aspects_nlp (SpecNlp) *)

NoAspectKeyword(t) ==
    \A i \in 1..Len(NlpAspectOrder) : ~AnyIn(NlpAspectKeywords(NlpAspectOrder[i]), t)

\* C16: whenever no aspect category matches the text, extract_aspects_nlp
\* returns the single entry {aspect: general} whose sentiment is the overall
\* sentiment computed for that text.
C16_FallbackUsesOverallSentiment ==
    (pc = "extract_aspects_nlp" /\ text.words # <<>> /\ NoAspectKeyword(text)
        /\ WellFormedRating) =>
        aspects = <<[aspect    |-> "general",
                     sentiment |-> Lower(analyze_sentiment_nlp(text, rating).label)]>>

----------------------------------------------------------------------------
(* Clauses of the NEGATIVE and POSITIVE responses (SpecResponse) *)

\* the response of a call whose noun-phrase extraction did not raise and
\* whose aspects argument is a list of aspect entries
ComposedFor(sent) ==
    /\ Composed
    /\ response.sentiment = sent
    /\ ~response.raised
    /\ response.aspects.kind = "list"

FoodRemediation == {"food_temperature", "food_quality", "food_preparation"}
ServiceRemediation == {"service_behavior", "service_speed", "service_training"}
PriceRemediation == {"price_feedback"}
GenericRemediation == {"generic_remediation"}

\* the remediation clauses an aspect may get, by the claim
RemediationFor(a) ==
    IF a = "food" THEN FoodRemediation
    ELSE IF a = "service" THEN ServiceRemediation
    ELSE IF a = "price" THEN PriceRemediation
    ELSE GenericRemediation

Apologies == {"apology_unacceptable", "apology_expectations", "apology_issues"}

IsRemediation(c) == c \notin Apologies \cup {"second_chance"}

\* the clauses of the response between the apology and the closing
RemediationClauses == SelectSeq(response.text, IsRemediation)

IsKnownEntry(e) == e.aspect \in {"food", "service", "price"}

EndsWithSecondChance ==
    response.text # <<>> /\ response.text[Len(response.text)] = "second_chance"

\* C29 as stated: every response composed for NEGATIVE sentiment ends with
\* the second-chance closing, for every text and every aspect list.
C29_AlwaysSecondChance ==
    (Composed /\ response.sentiment = "NEGATIVE") => EndsWithSecondChance

\* C29 amended: a response composed for NEGATIVE sentiment ends with the
\* second-chance closing exactly when the text has no health/safety keyword
\* and the noun-phrase extraction did not raise; the health branch and the
\* fallback of the exception handler have no closing.
C29_SecondChanceUnlessHealthOrRaised ==
    (Composed /\ response.sentiment = "NEGATIVE") =>
        (EndsWithSecondChance <=> (~response.raised /\ ~Mentions(HealthWords, text)))

C29_Witness ==
    /\ Composed
    /\ response.sentiment = "NEGATIVE"
    /\ ~response.raised
    /\ ~Mentions(HealthWords, text)
    /\ AspectDetails(response.aspects) = {"general"}
    /\ response.text = <<"apology_issues", "second_chance">>

Openers == {"open_loved", "open_amazing", "open_great", "open_thanks"}
FoodThanks == {"food_beverages", "food_bakers", "food_hit_the_spot"}
ServiceThanks == {"service_team", "service_efficient", "service_excellent"}
AmbianceThanks == {"atmosphere"}
Closings == {"close_again", "close_welcome_back"}

IsAspectThanks(c) == c \in FoodThanks \cup ServiceThanks \cup AmbianceThanks

\* the clauses of a POSITIVE response that are keyed by an aspect
AspectThanks == SelectSeq(response.text, IsAspectThanks)

ClauseCount(clauses) == Cardinality({i \in 1..Len(response.text) : response.text[i] \in clauses})

----------------------------------------------------------------------------
(* The stages run in sequence by the entry points (SpecEndpoints) *)

\* C21: in every caller that runs the Sentiment Scorer and then the Emotion
\* Profiler, the intensity the profiler uses equals |polarity| of the
\* scorer's result (compared at the three decimals the scorer reports).
C21_IntensityIsAbsPolarity ==
    \A i \in 1..Len(log) : log[i].sentiment.scored =>
        Round3(log[i].intensity) = Abs(log[i].sentiment.polarity)

\* C23: every entry point hands the composer the aspect list the extractor
\* produced for the review, so two entry points that compute the same
\* sentiment label for the text compose the same response.
C23_ComposerGetsExtractedAspects ==
    /\ \A i \in 1..Len(log) : log[i].passed = AspectList(log[i].aspects)
    /\ \A i, j \in 1..Len(log) :
           (log[i].sentiment.label = log[j].sentiment.label
            /\ log[i].raised = log[j].raised) =>
               log[i].response = log[j].response

----------------------------------------------------------------------------
(* Windows of the aspect sentiment (SpecAspectSentiment) *)

\* the occurrences of the keywords of the aspect in the text
KeywordOccurrences(aspect) ==
    {i \in 1..Len(text.words) : text.words[i] \in AspectKeywords(aspect)}

\* the words of a table inside the window of some occurrence
WindowHits(aspect, table) ==
    {x \in table : \E at \in KeywordOccurrences(aspect) : InContext(text.words, at, x)}

\* C22: the sentiment of a detected aspect comes from the lexicon hits in
\* the windows around every occurrence of its keywords: when the windows
\* hold hits of one polarity only the aspect has that polarity, and when
\* they hold no hit (every sentiment word is farther away) it is NEUTRAL.
C22_EveryOccurrenceWindow ==
    (pc = "get_aspect_sentiment" /\ KeywordOccurrences("food") # {}) =>
        LET pos == WindowHits("food", positive_words)
            neg == WindowHits("food", negative_words)
            result == aspects[1].sentiment
        IN  /\ (pos # {} /\ neg = {}) => result = "POSITIVE"
            /\ (neg # {} /\ pos = {}) => result = "NEGATIVE"
            /\ (pos = {} /\ neg = {}) => result = "NEUTRAL"

----------------------------------------------------------------------------
(* Lookup before ingest, and the confidence of a response (Spec) *)

\* call i analyzed a review that no earlier call analyzed and that the index
\* did not hold at start-up
FirstAnalysis(i) ==
    /\ \A j \in 1..(i - 1) : log[j].review # log[i].review
    /\ \A k \in 1..Len(log[1].before) : log[1].before[k].text # log[i].review.text

\* C25: within one analysis the lookup precedes the ingest of the review:
\* what it retrieves was in the index before the call; starting from an
\* empty index the first two analyzed reviews get an empty theme list; and a
\* review analyzed for the first time is never among the reviews retrieved
\* for its own response.
C25_LookupBeforeIngest ==
    \A i \in 1..Len(log) :
        LET similar == log[i].lookup.similar
        IN  /\ \A k \in 1..Len(similar) :
                   \E m \in 1..Len(log[i].before) :
                       /\ log[i].before[m].id = similar[k].id
                       /\ log[i].before[m].text = similar[k].text
            /\ (log[1].before = <<>> /\ i <= 2) => Themes(i) = <<>>
            /\ FirstAnalysis(i) =>
                   \A k \in 1..Len(similar) : similar[k].text # log[i].review.text

\* the second analysis on an index that was empty retrieved the first
\* review, which the first analysis had ingested, and got no theme from it
C25_Witness ==
    /\ Len(log) = 2
    /\ log[1].before = <<>>
    /\ Len(log[2].before) = 1
    /\ Len(store) = 2
    /\ log[2].lookup.similar # <<>>
    /\ FirstAnalysis(2)
    /\ Themes(2) = <<>>

Confidence(i) == log[i].result.ai_response.confidence

\* the index answered the lookup of call i
Answered(i) == log[i].lookup.made /\ ~log[i].lookup.raised

\* C27 as stated: the confidence is 0.90 iff a non-empty list of retrieved
\* themes was used; every response composed without themes has a
\* confidence from 0.70 to 0.85.
C27_HighConfidenceIffThemes ==
    \A i \in 1..Len(log) : log[i].result.success =>
        /\ Confidence(i) = 90000 <=> Themes(i) # <<>>
        /\ Themes(i) = <<>> => (Confidence(i) >= 70000 /\ Confidence(i) <= 85000)

\* C27 amended: the confidence is 0.90 iff the index answered the lookup,
\* with or without themes; it is 0.85 (POSITIVE, NEGATIVE) or 0.70 (other
\* labels) iff the response came from the templates; so a response composed
\* with themes has 0.90, and a response with 0.90 may have none.
C27_HighConfidenceIffIndexAnswered ==
    \A i \in 1..Len(log) : log[i].result.success =>
        /\ Confidence(i) = 90000 <=> Answered(i)
        /\ ~Answered(i) =>
               Confidence(i) = (IF log[i].result.sentiment.label \in {"POSITIVE", "NEGATIVE"}
                                THEN 85000 ELSE 70000)
        /\ Themes(i) # <<>> => Confidence(i) = 90000

\* a response of the index with confidence 0.90 and no theme
C27_Witness ==
    \E i \in 1..Len(log) :
        /\ log[i].result.success
        /\ Answered(i)
        /\ Themes(i) = <<>>
        /\ log[i].result.ai_response.response.key = "default"
        /\ Confidence(i) = 90000

----------------------------------------------------------------------------
(* The theme that determines the response (SpecThemes) *)

Built == pc = "generate_response"

\* in how many of the retrieved reviews the theme recurs
Recurrence(a) == ThemeCount(a, found[1].results)

ThemeNames == {ThemeOrder[k] : k \in 1..Len(ThemeOrder)}

\* position of the theme in the table of _extract_themes
TableRank(a) == CHOOSE k \in 1..Len(ThemeOrder) : ThemeOrder[k] = a

\* C26 as stated: when a theme determines the response, no other theme
\* recurs in strictly more of the retrieved reviews than it does.
C26_MostRecurringThemeUsed ==
    (Built /\ response.themes # <<>> /\ response.text.key # "default") =>
        \A a \in ThemeNames : Recurrence(a) <= Recurrence(response.text.key)

\* C26 amended: when the theme list is non-empty, the theme considered is
\* the first, in the order of the aspect table, of the themes that recur in
\* at least 2 retrieved reviews, whatever the recurrence of the others; it
\* determines the response iff the sentiment has a text for it, otherwise
\* (and always for NEUTRAL) the default text is used.
C26_FirstThemeInTableOrderUsed ==
    (Built /\ response.themes # <<>>) =>
        LET first == response.themes[1]
        IN  /\ Recurrence(first) >= 2
            /\ \A a \in ThemeNames :
                   (Recurrence(a) >= 2 /\ a # first) => TableRank(first) < TableRank(a)
            /\ response.text.key =
                   (IF first \in RagKeys(response.text.row) THEN first ELSE "default")

\* food recurs in two retrieved reviews, service in three, and food is used
C26_Witness ==
    /\ Built
    /\ response.sentiment = "POSITIVE"
    /\ Recurrence("food") = 2
    /\ Recurrence("service") = 3
    /\ response.text.key = "food"

----------------------------------------------------------------------------
(* Ingest of analyzed reviews (SpecProduction) *)

\* the index holds an entry with the text
InIndex(t) == \E k \in 1..Len(store) : store[k].text = t

\* C24: every review whose analysis completed successfully while the index
\* was available, and whose write did not fail, is in the index afterwards,
\* whichever entry point analyzed it.
C24_AnalyzedReviewsIngested ==
    \A i \in 1..Len(log) :
        (available /\ log[i].result.success /\ ~log[i].write_raised) =>
            InIndex(log[i].review.text)

----------------------------------------------------------------------------
(* Ordering of find_similar_reviews and the append-only index (SpecIndex) *)

Searched == found # <<>> /\ found[1].op = "find_similar_reviews"

\* position in the store of the entry with the id: its insertion rank
PosOf(id) == CHOOSE i \in 1..Len(store) : store[i].id = id

\* C17: find_similar_reviews returns at most n_results entries, by similarity
\* descending, the most similar among the stored entries that pass the
\* sentiment filter; entries of equal similarity come in insertion order,
\* oldest first.
C17_TopNStableOrder ==
    Searched =>
        LET res == found[1].results
            C == Candidates(store, found[1].sentiment_filter)
        IN  /\ Len(res) <= found[1].n_results
            /\ Len(res) = Min(found[1].n_results, Cardinality(C))
            /\ \A a \in 1..Len(res) : PosOf(res[a].id) \in C
            /\ \A a, b \in 1..Len(res) : a < b =>
                   /\ res[a].similarity >= res[b].similarity
                   /\ res[a].similarity = res[b].similarity =>
                          PosOf(res[a].id) < PosOf(res[b].id)
            /\ \A c \in C : (\A a \in 1..Len(res) : PosOf(res[a].id) # c) =>
                   \A a \in 1..Len(res) :
                       res[a].similarity >= Similarity(found[1].query.vec, store[c].vec)

IsPrefix(s1, s2) == Len(s1) <= Len(s2) /\ \A i \in 1..Len(s1) : s2[i] = s1[i]

\* C18: add_review and add_reviews_batch only append entries;
\* find_similar_reviews, generate_response and get_stats leave the store
\* unchanged; only clear_database removes entries, and it removes them all.
\* A step that extends log is a clear_database that found entries; a step
\* that leaves a result in found is one of the three reads.
C18_AppendOnly ==
    [][/\ IsPrefix(store, store') \/ (log' # log /\ store' = <<>>)
       /\ log' # log => store' = <<>>
       /\ found' # <<>> => store' = store]_vars

\* after a purge that removed entries, the collection took a new entry
C18_Witness ==
    /\ pc = "index"
    /\ log # <<>>
    /\ Len(store) = 1 /\ Len(writes) = 1

====
